---- MODULE Spec2Model ----
(***************************************************************************)
(* PrestoDeck Spotify application (src/applications/spotify/spotify.py).   *)
(* Two cooperatively scheduled coroutines share one State object: the      *)
(* touch handler loop and the display loop.  Every action below is one    *)
(* stretch of code between two suspension points of a coroutine.           *)
(***************************************************************************)
EXTENDS Integers, Sequences, FiniteSets, TLC

(***************************************************************************)
(* Bounds of the model.                                                    *)
(***************************************************************************)
MaxTime == 12
MaxTouches == 2
MaxFetches == 2
MaxWatchTime == 33
MaxWatchFetches == 2
MaxDimTime == 32

(***************************************************************************)
(* Program constants.                                                      *)
(***************************************************************************)
INTERVAL == 10
INACTIVITY_TIMEOUT == 30
Tolerance == 5000
\* BaseApp with full_res=True: the display is 480 x 480 pixels.
Width == 480
Height == 480
CenterX == Width \div 2

\* time.time() is a whole number of seconds; None is modelled as NoTime.
NoTime == 0 - 1
StartTime == 1

Abs(x) == IF x < 0 THEN 0 - x ELSE x
Min(a, b) == IF a < b THEN a ELSE b
Max(a, b) == IF a > b THEN a ELSE b

(***************************************************************************)
(* Tracks.  A track object carries its id and its duration; the absent     *)
(* track (Python None) is NoTrack, whose id is the null id.                *)
(***************************************************************************)
NoTrack == [id |-> "null", duration_ms |-> 0]
TrackA == [id |-> "A", duration_ms |-> 200000]
TrackB == [id |-> "B", duration_ms |-> 12000]
Tracks == {TrackA, TrackB}

\* (track or {}).get('id')
TrackId(t) == t.id

(***************************************************************************)
(* class State                                                             *)
(***************************************************************************)
NewState(t) ==
    [toggle_leds |-> TRUE, is_playing |-> FALSE, repeat |-> FALSE,
     shuffle |-> FALSE, track |-> NoTrack, show_controls |-> FALSE,
     exit |-> FALSE, volume |-> 50, is_liked |-> FALSE, progress_ms |-> 0,
     duration_ms |-> 0, last_activity |-> t, is_dimmed |-> FALSE,
     latest_fetch |-> NoTime]

\* The snapshot that stands for "no snapshot yet" (prev_state = None).
NoState == [none |-> TRUE]

\* A variant of State.copy that leaves the volume at the constructor's value.
CopyMissingVolume(s, t) ==
    [NewState(t) EXCEPT
        !.toggle_leds = s.toggle_leds, !.is_playing = s.is_playing,
        !.repeat = s.repeat, !.shuffle = s.shuffle,
        !.show_controls = s.show_controls, !.exit = s.exit,
        !.track = IF s.track # NoTrack
                  THEN [id |-> s.track.id, duration_ms |-> 0] ELSE NoTrack,
        !.is_liked = s.is_liked,
        !.progress_ms = s.progress_ms, !.duration_ms = s.duration_ms,
        !.last_activity = s.last_activity, !.is_dimmed = s.is_dimmed]

\* State.copy: latest_fetch is not copied (the copy keeps the constructor's
\* None), and of the track only the id is kept.
Copy(s, t) ==
    [NewState(t) EXCEPT
        !.toggle_leds = s.toggle_leds, !.is_playing = s.is_playing,
        !.repeat = s.repeat, !.shuffle = s.shuffle,
        !.show_controls = s.show_controls, !.exit = s.exit,
        !.track = IF s.track # NoTrack
                  THEN [id |-> s.track.id, duration_ms |-> 0] ELSE NoTrack,
        !.volume = s.volume, !.is_liked = s.is_liked,
        !.progress_ms = s.progress_ms, !.duration_ms = s.duration_ms,
        !.last_activity = s.last_activity, !.is_dimmed = s.is_dimmed]

\* A variant of State.__eq__ whose tolerance includes 5000 ms.
StateEqInclusiveTolerance(a, b) ==
    /\ b # NoState
    /\ a.toggle_leds = b.toggle_leds
    /\ a.is_playing = b.is_playing
    /\ a.repeat = b.repeat
    /\ a.shuffle = b.shuffle
    /\ a.show_controls = b.show_controls
    /\ a.exit = b.exit
    /\ TrackId(a.track) = TrackId(b.track)
    /\ a.volume = b.volume
    /\ a.is_liked = b.is_liked
    /\ Abs(a.progress_ms - b.progress_ms) <= Tolerance
    /\ a.is_dimmed = b.is_dimmed

\* State.__eq__(a, b); b may be None.
StateEq(a, b) ==
    /\ b # NoState
    /\ a.toggle_leds = b.toggle_leds
    /\ a.is_playing = b.is_playing
    /\ a.repeat = b.repeat
    /\ a.shuffle = b.shuffle
    /\ a.show_controls = b.show_controls
    /\ a.exit = b.exit
    /\ TrackId(a.track) = TrackId(b.track)
    /\ a.volume = b.volume
    /\ a.is_liked = b.is_liked
    /\ Abs(a.progress_ms - b.progress_ms) < Tolerance
    /\ a.is_dimmed = b.is_dimmed

\* prev_state != self.state, with prev_state possibly None
StateNe(p, s) == IF p = NoState THEN TRUE ELSE ~StateEq(p, s)

(***************************************************************************)
(* Control buttons (setup_buttons).  A button view is [enabled, icon].     *)
(***************************************************************************)
ButtonNames ==
    <<"Exit", "Next", "Previous", "Play", "Toggle Shuffle", "Toggle Repeat",
      "Toggle Light", "Volume Up", "Volume Down", "Like", "Toggle Controls">>
NButtons == Len(ButtonNames)
ButtonIds == 1..NButtons

\* buttons_config: bounds (x, y, width, height), in declaration order
Bounds ==
    <<  <<0, 0, 80, 80>>,
        <<CenterX + 60, Height - 100, 80, 100>>,
        <<CenterX - 140, Height - 100, 80, 100>>,
        <<CenterX - 50, Height - 100, 80, 100>>,
        <<CenterX - 230, Height - 100, 80, 100>>,
        <<CenterX + 150, Height - 100, 80, 100>>,
        <<Width - 100, 0, 100, 80>>,
        <<Width - 100, 100, 80, 60>>,
        <<Width - 100, 170, 80, 60>>,
        <<20, Height - 200, 60, 60>>,
        <<0, 0, Width, Height>> >>

\* buttons_config: icons[0], the icon a ControlButton is constructed with
FirstIcon ==
    <<"exit.png", "next.png", "previous.png", "play.png", "shuffle_on.png",
      "repeat_on.png", "light_on.png", "volume_up.png", "volume_down.png",
      "heart_empty.png", "None">>

\* ControlButton.__init__
NewButtons == [i \in ButtonIds |-> [enabled |-> FALSE, icon |-> FirstIcon[i]]]

\* touch.Button: the touch point lies inside the bounds
Contains(r, p) ==
    /\ r[1] <= p[1] /\ p[1] < r[1] + r[3]
    /\ r[2] <= p[2] /\ p[2] < r[2] + r[4]

\* ControlButton.draw: the icon drawn for a button view, "nothing" when the
\* button is not enabled or has no icon.
Draw(b) == IF b.enabled /\ b.icon # "None" THEN b.icon ELSE "nothing"

\* The update function of button i applied to state s and view b.
Update(i, s, b) ==
    CASE ButtonNames[i] = "Toggle Controls" -> [b EXCEPT !.enabled = TRUE]
      [] ButtonNames[i] = "Play" ->
            [enabled |-> s.show_controls,
             icon |-> IF s.is_playing THEN "pause.png" ELSE "play.png"]
      [] ButtonNames[i] = "Toggle Shuffle" ->
            [enabled |-> s.show_controls,
             icon |-> IF s.shuffle THEN "shuffle_on.png" ELSE "shuffle_off.png"]
      [] ButtonNames[i] = "Toggle Repeat" ->
            [enabled |-> s.show_controls,
             icon |-> IF s.repeat THEN "repeat_on.png" ELSE "repeat_off.png"]
      [] ButtonNames[i] = "Toggle Light" ->
            [enabled |-> s.show_controls,
             icon |-> IF s.toggle_leds THEN "light_on.png" ELSE "light_off.png"]
      [] ButtonNames[i] = "Like" ->
            [enabled |-> s.show_controls,
             icon |-> IF s.is_liked THEN "heart_filled.png" ELSE "heart_empty.png"]
      [] OTHER -> [b EXCEPT !.enabled = s.show_controls]

\* ControlButton.is_pressed: enabled and the finger is on the button.
\* finger is <<>> when nothing touches the screen, else <<point>>.
IsPressed(i, b, finger) ==
    /\ b.enabled
    /\ finger # <<>>
    /\ Contains(Bounds[i], finger[1])

(***************************************************************************)
(* On-press handlers.  ok says whether the handler's call to the remote    *)
(* client (or to the LED driver) returns; when it raises, the handler      *)
(* stops at that line.  Each yields [state, raised, call].                 *)
(***************************************************************************)
NoCall == [op |-> "none"]

exit_app(s) ==
    [state |-> [s EXCEPT !.exit = TRUE], raised |-> FALSE, call |-> NoCall]

toggle_controls(s, t) ==
    [state |-> [s EXCEPT !.show_controls = ~s.show_controls,
                         !.last_activity = t],
     raised |-> FALSE, call |-> NoCall]

\* A variant in which the lines that follow the call run although it raised.
HandledOptimistic(s, s2, ok, call) ==
    [state |-> s2, raised |-> ~ok, call |-> call]

\* A handler whose call is made with the state s: s2 is the state after the
\* lines that follow the call, which run only when the call returns.
Handled(s, s2, ok, call) ==
    [state |-> IF ok THEN s2 ELSE s, raised |-> ~ok, call |-> call]

play_pause(s, ok, t) ==
    Handled(s, [s EXCEPT !.is_playing = ~s.is_playing, !.last_activity = t], ok,
            [op |-> IF s.is_playing THEN "pause" ELSE "play"])

\* A variant of next_track that leaves latest_fetch as it is.
next_track_keeps_fetch(s, ok, t) ==
    Handled(s, [s EXCEPT !.last_activity = t], ok, [op |-> "next"])

next_track(s, ok, t) ==
    Handled(s, [s EXCEPT !.latest_fetch = NoTime, !.last_activity = t], ok,
            [op |-> "next"])

previous_track(s, ok, t) ==
    Handled(s, [s EXCEPT !.latest_fetch = NoTime, !.last_activity = t], ok,
            [op |-> "previous"])

toggle_shuffle(s, ok, t) ==
    Handled(s, [s EXCEPT !.shuffle = ~s.shuffle, !.last_activity = t], ok,
            [op |-> "toggle_shuffle", flag |-> ~s.shuffle])

toggle_repeat(s, ok, t) ==
    Handled(s, [s EXCEPT !.repeat = ~s.repeat, !.last_activity = t], ok,
            [op |-> "toggle_repeat", flag |-> ~s.repeat])

toggle_lights(s, ok, t) ==
    Handled(s, [s EXCEPT !.toggle_leds = ~s.toggle_leds, !.last_activity = t], ok,
            [op |-> "toggle_leds", flag |-> ~s.toggle_leds])

volume_up(s, ok, t) ==
    LET new_volume == Min(100, s.volume + 10) IN
    Handled(s, [s EXCEPT !.volume = new_volume, !.last_activity = t], ok,
            [op |-> "set_volume", volume |-> new_volume])

\* A variant of volume_down that does not clamp at 0.
volume_down_unclamped(s, ok, t) ==
    LET new_volume == s.volume - 10 IN
    Handled(s, [s EXCEPT !.volume = new_volume, !.last_activity = t], ok,
            [op |-> "set_volume", volume |-> new_volume])

volume_down(s, ok, t) ==
    LET new_volume == Max(0, s.volume - 10) IN
    Handled(s, [s EXCEPT !.volume = new_volume, !.last_activity = t], ok,
            [op |-> "set_volume", volume |-> new_volume])

toggle_like(s, ok, t) ==
    IF s.track # NoTrack
    THEN Handled(s, [s EXCEPT !.is_liked = ~s.is_liked, !.last_activity = t], ok,
                 [op |-> IF s.is_liked THEN "remove_saved_track" ELSE "save_track",
                  track_id |-> s.track.id])
    ELSE [state |-> s, raised |-> FALSE, call |-> NoCall]

\* Whether button i's handler makes a call that can raise in state s.
CanRaise(i, s) ==
    CASE ButtonNames[i] \in {"Exit", "Toggle Controls"} -> FALSE
      [] ButtonNames[i] = "Like" -> s.track # NoTrack
      [] OTHER -> TRUE

\* button.on_press(self) of button i
OnPress(i, s, ok, t) ==
    CASE ButtonNames[i] = "Exit" -> exit_app(s)
      [] ButtonNames[i] = "Next" -> next_track(s, ok, t)
      [] ButtonNames[i] = "Previous" -> previous_track(s, ok, t)
      [] ButtonNames[i] = "Play" -> play_pause(s, ok, t)
      [] ButtonNames[i] = "Toggle Shuffle" -> toggle_shuffle(s, ok, t)
      [] ButtonNames[i] = "Toggle Repeat" -> toggle_repeat(s, ok, t)
      [] ButtonNames[i] = "Toggle Light" -> toggle_lights(s, ok, t)
      [] ButtonNames[i] = "Volume Up" -> volume_up(s, ok, t)
      [] ButtonNames[i] = "Volume Down" -> volume_down(s, ok, t)
      [] ButtonNames[i] = "Like" -> toggle_like(s, ok, t)
      [] OTHER -> toggle_controls(s, t)

(***************************************************************************)
(* fetch_state.  Responses of the two remote calls:                        *)
(*   [kind |-> "raise"]   the call raises                                  *)
(*   [kind |-> "none"]    the call returns nothing                         *)
(*   [kind |-> "resp", ...] a response; absent keys are NoVolume,          *)
(*                        NoProgress, has_device = FALSE, item = NoTrack   *)
(***************************************************************************)
NoVolume == 0 - 1
NoProgress == 0 - 1
NoDevice == "None"
NoResult == [none |-> TRUE]

CurRaise == [kind |-> "raise"]
CurNone == [kind |-> "none"]
CurResp(item, playing, shuf, rep, dev, vol, prog) ==
    [kind |-> "resp", item |-> item, is_playing |-> playing,
     shuffle_state |-> shuf, repeat_state |-> rep, has_device |-> dev,
     device_id |-> "dev1", volume_percent |-> vol, progress_ms |-> prog]

RecRaise == [kind |-> "raise"]
RecNone == [kind |-> "none"]
\* items: the tracks of the entries; an entry without a "track" key is Broken
Broken == [broken |-> TRUE]
RecResp(items) == [kind |-> "resp", items |-> items]

\* The locals of fetch_state as initialised (lines 454-461).
FetchDefaults ==
    [current_track |-> NoTrack, is_playing |-> FALSE, shuffle |-> FALSE,
     repeat |-> FALSE, device_id |-> NoDevice, volume |-> 50,
     progress_ms |-> 0, duration_ms |-> 0]

\* The locals after the first try block (lines 463-476).  resp["device"]
\* raises when the response has no device: the assignments before that line
\* have been made, the ones after it have not.
AfterCurrent(cur) ==
    IF cur.kind = "resp" /\ cur.item # NoTrack
    THEN IF cur.has_device
         THEN [current_track |-> cur.item,
               is_playing |-> cur.is_playing,
               shuffle |-> cur.shuffle_state,
               repeat |-> (cur.repeat_state # "off"),
               device_id |-> cur.device_id,
               volume |-> IF cur.volume_percent = NoVolume THEN 50
                          ELSE cur.volume_percent,
               progress_ms |-> IF cur.progress_ms = NoProgress THEN 0
                               ELSE cur.progress_ms,
               duration_ms |-> cur.item.duration_ms]
         ELSE [FetchDefaults EXCEPT
                  !.current_track = cur.item,
                  !.is_playing = cur.is_playing,
                  !.shuffle = cur.shuffle_state,
                  !.repeat = (cur.repeat_state # "off")]
    ELSE FetchDefaults

\* The locals after the second try block (lines 478-486), entered with l.
AfterRecent(l, rec) ==
    IF /\ rec.kind = "resp"
       /\ rec.items # <<>>
       /\ rec.items[1] # Broken
    THEN [l EXCEPT !.current_track = rec.items[1],
                   !.duration_ms = rec.items[1].duration_ms]
    ELSE l

\* fetch_state: [result, recent_called]; result is NoResult for None.
FetchState(cur, rec) ==
    LET l1 == AfterCurrent(cur)
        called == (l1.current_track = NoTrack)
        l2 == IF called THEN AfterRecent(l1, rec) ELSE l1
    IN [result |-> IF l2.current_track = NoTrack THEN NoResult
                   ELSE [device_id |-> l2.device_id, track |-> l2.current_track,
                         is_playing |-> l2.is_playing, shuffle |-> l2.shuffle,
                         repeat |-> l2.repeat, volume |-> l2.volume,
                         progress_ms |-> l2.progress_ms,
                         duration_ms |-> l2.duration_ms],
        recent_called |-> called]

(***************************************************************************)
(* The running application.                                                *)
(***************************************************************************)
VARIABLES
    state,        \* self.state
    prev_state,   \* display_loop's prev_state (NoState for None)
    buttons,      \* self.buttons: the view [enabled, icon] of every button
    device_id,    \* self.spotify_client.session.device_id
    backlight,    \* the last value given to display.set_backlight, in percent
    now,          \* time.time()
    finger,       \* the touch panel: <<>> or <<point>>
    tpc,          \* touch_handler_loop: "top", "waiting", "done"
    dpc,          \* display_loop: "top", "estimate", "redraw", "done", "crashed"
    touches,      \* number of touches so far
    fetches,      \* number of calls of fetch_state so far
    press,        \* what the touch loop's current tick has dispatched
    fetch_log,    \* the display loop's last iteration: the call of fetch_state
    image_shown,  \* ... whether it decoded an album image
    redrew,       \* ... whether it redrew the controls and committed
    backlit,      \* ... whether it called display.set_backlight
    polled        \* the last call of fetch_state: when, and the progress then

vars == <<state, prev_state, buttons, device_id, backlight, now, finger, tpc,
          dpc, touches, fetches, press, fetch_log, image_shown, redrew,
          backlit, polled>>

NoPress == [hit |-> 0, raised |-> FALSE, call |-> NoCall]
NoFetch == [none |-> TRUE]
NoPoll == [at |-> NoTime, progress_ms |-> 0]

\* The centre of button i's bounds.
Centre(i) == <<Bounds[i][1] + Bounds[i][3] \div 2, Bounds[i][2] + Bounds[i][4] \div 2>>
Points == {Centre(i) : i \in ButtonIds}

\* The responses the remote gives in the running application.
PlayingA == CurResp(TrackA, TRUE, FALSE, "off", TRUE, 50, 50000)
PlayingB == CurResp(TrackB, TRUE, TRUE, "context", TRUE, 95, 0)
LoopCur == {CurRaise, PlayingA, PlayingB}
LoopRec == {RecRaise, RecResp(<<TrackA>>)}
SavedOutcomes == {"true", "false", "raise"}

Init ==
    /\ state = NewState(StartTime)
    /\ prev_state = NoState
    /\ buttons = NewButtons
    /\ device_id = NoDevice
    /\ backlight = 100
    /\ now = StartTime
    /\ finger = <<>>
    /\ tpc = "top"
    /\ dpc = "top"
    /\ touches = 0
    /\ fetches = 0
    /\ press = NoPress
    /\ fetch_log = NoFetch
    /\ image_shown = FALSE
    /\ redrew = FALSE
    /\ backlit = FALSE
    /\ polled = NoPoll

(***************************************************************************)
(* The environment: the clock and the user's finger.                       *)
(***************************************************************************)
\* In the running application the clock is observed a little after a fetch
\* interval or after the inactivity timeout has passed.
TimeSteps == {INTERVAL + 1, INACTIVITY_TIMEOUT + 1}

AdvanceBy(steps, max) ==
    /\ \E d \in steps : now + d <= max /\ now' = now + d
    /\ UNCHANGED <<state, prev_state, buttons, device_id, backlight, finger,
                   tpc, dpc, touches, fetches, press, fetch_log, image_shown, redrew,
                   polled, backlit>>

Touch ==
    /\ finger = <<>>
    /\ touches < MaxTouches
    /\ \E p \in Points : finger' = <<p>>
    /\ touches' = touches + 1
    /\ UNCHANGED <<state, prev_state, buttons, device_id, backlight, now, tpc,
                   dpc, fetches, press, fetch_log, image_shown, redrew,
                   polled, backlit>>

Release ==
    /\ finger # <<>>
    /\ finger' = <<>>
    /\ UNCHANGED <<state, prev_state, buttons, device_id, backlight, now, tpc,
                   dpc, touches, fetches, press, fetch_log, image_shown, redrew,
                   polled, backlit>>

(***************************************************************************)
(* touch_handler_loop                                                      *)
(***************************************************************************)
\* for button in self.buttons: update; if pressed: dispatch and break.
\* Whether the loop, on reaching button i, finds it pressed after its update.
PressedAt(i, btns, s, f) == IsPressed(i, Update(i, s, btns[i]), f)

\* A variant in which the loop does not break and the last match wins.
LastPressed(btns, s, f) ==
    CHOOSE h \in 0..NButtons :
        \/ h = 0 /\ \A i \in ButtonIds : ~PressedAt(i, btns, s, f)
        \/ /\ h > 0
           /\ PressedAt(h, btns, s, f)
           /\ \A j \in (h + 1)..NButtons : ~PressedAt(j, btns, s, f)

\* The button at which the loop breaks (0: it runs to the end).
FirstPressed(btns, s, f) ==
    CHOOSE h \in 0..NButtons :
        \/ h = 0 /\ \A i \in ButtonIds : ~PressedAt(i, btns, s, f)
        \/ /\ h > 0
           /\ PressedAt(h, btns, s, f)
           /\ \A j \in 1..(h - 1) : ~PressedAt(j, btns, s, f)

\* The button views after the loop broke at button hit: the buttons up to
\* it have been updated, the later ones have not.
Scanned(btns, s, hit) ==
    [i \in ButtonIds |->
        IF hit = 0 \/ i <= hit THEN Update(i, s, btns[i]) ELSE btns[i]]

\* A variant without the try/except: the exception leaves the loop.
DispatchUncaught(i, s, ok, t) ==
    LET r == OnPress(i, s, ok, t) IN
    [state |-> r.state, raised |-> r.raised, call |-> r.call,
     crashed |-> r.raised]

\* try: button.on_press(self) / except Exception: the handler's outcome as
\* the loop sees it (an exception is caught and printed).
Dispatch(i, s, ok, t) ==
    LET r == OnPress(i, s, ok, t) IN
    [state |-> r.state, raised |-> r.raised, call |-> r.call,
     crashed |-> FALSE]

\* A variant of the loop condition that ignores the exit flag.
LoopRunsForever(s) == TRUE

\* while not self.state.exit (both loops)
LoopRuns(s) == ~s.exit

\* The loop is left when exit is set.
TouchExit ==
    /\ tpc = "top"
    /\ ~LoopRuns(state)
    /\ tpc' = "done"
    /\ UNCHANGED <<state, prev_state, buttons, device_id, backlight, now,
                   finger, dpc, touches, fetches, press, fetch_log, image_shown, redrew,
                   polled, backlit>>

\* One iteration up to the wait for release (lines 287-298).
TouchScan ==
    /\ tpc = "top"
    /\ LoopRuns(state)
    /\ \E hit \in {FirstPressed(buttons, state, finger)} :
       /\ buttons' = Scanned(buttons, state, hit)
       /\ IF hit = 0
          THEN /\ press' = NoPress
               /\ state' = state
               /\ tpc' = IF finger # <<>> THEN "waiting" ELSE "top"
          ELSE \E ok \in BOOLEAN :
               /\ (~ok => CanRaise(hit, state))
               /\ \E r \in {Dispatch(hit, state, ok, now)} :
                  /\ state' = r.state
                  /\ press' = [hit |-> hit, raised |-> r.raised,
                               call |-> r.call]
                  /\ tpc' = IF r.crashed THEN "crashed" ELSE "waiting"
    /\ UNCHANGED <<prev_state, device_id, backlight, now, finger, dpc,
                   touches, fetches, fetch_log, image_shown, redrew,
                   polled, backlit>>

\* A variant of the wait that never finds the panel touched.
HeldNever(f) == FALSE

\* self.touch.state after a poll: whether the panel is touched
Held(f) == f # <<>>

\* while self.touch.state: self.touch.poll()  (lines 301-304): the loop spins
\* without suspending until the panel reports no touch, then sleeps 1 ms.
TouchWait ==
    /\ tpc = "waiting"
    /\ ~Held(finger)
    /\ tpc' = "top"
    /\ press' = NoPress
    /\ UNCHANGED <<state, prev_state, buttons, device_id, backlight, now,
                   finger, dpc, touches, fetches, fetch_log, image_shown,
                   redrew,
                   polled, backlit>>

\* The display loop runs only while the touch loop is suspended.
TouchSuspended == tpc # "waiting"

(***************************************************************************)
(* display_loop                                                            *)
(***************************************************************************)
\* A variant in which a fetch is due in every iteration.
FetchDueAlways(s, t) == TRUE

\* not latest_fetch or time.time() - latest_fetch > INTERVAL
FetchDue(s, t) ==
    \/ s.latest_fetch = NoTime
    \/ s.latest_fetch = 0
    \/ t - s.latest_fetch > INTERVAL

\* A variant in which a poll without a track clears the track on display.
MergeNoTrack(s, result, saved) ==
    IF result = NoResult
    THEN [s EXCEPT !.track = NoTrack, !.is_playing = FALSE,
                   !.progress_ms = 0, !.duration_ms = 0]
    ELSE LET s1 == [s EXCEPT !.track = result.track,
                             !.is_playing = result.is_playing,
                             !.shuffle = result.shuffle,
                             !.repeat = result.repeat,
                             !.volume = result.volume,
                             !.progress_ms = result.progress_ms,
                             !.duration_ms = result.duration_ms]
         IN IF saved = "raise" THEN s1
            ELSE [s1 EXCEPT !.is_liked = (saved = "true")]

\* Lines 395-406: the state after a poll returned result; saved is the
\* outcome of check_saved_track.
Merge(s, result, saved) ==
    IF result = NoResult THEN s
    ELSE LET s1 == [s EXCEPT !.track = result.track,
                             !.is_playing = result.is_playing,
                             !.shuffle = result.shuffle,
                             !.repeat = result.repeat,
                             !.volume = result.volume,
                             !.progress_ms = result.progress_ms,
                             !.duration_ms = result.duration_ms]
         IN IF saved = "raise" THEN s1
            ELSE [s1 EXCEPT !.is_liked = (saved = "true")]

\* Lines 397-398
AdoptDevice(d, result) ==
    IF result # NoResult /\ result.device_id # NoDevice
    THEN result.device_id ELSE d

\* The loop is left when exit is set.
DispExit ==
    /\ dpc = "top"
    /\ TouchSuspended
    /\ ~LoopRuns(state)
    /\ dpc' = "done"
    /\ UNCHANGED <<state, prev_state, buttons, device_id, backlight, now,
                   finger, tpc, touches, fetches, press, fetch_log, image_shown, redrew,
                   polled, backlit>>

\* Lines 390-408 when no fetch is due.
DispSkipFetch ==
    /\ dpc = "top"
    /\ TouchSuspended
    /\ LoopRuns(state)
    /\ ~FetchDue(state, now)
    /\ dpc' = "estimate"
    /\ fetch_log' = NoFetch
    /\ image_shown' = FALSE
    /\ redrew' = FALSE
    /\ backlit' = FALSE
    /\ UNCHANGED <<state, prev_state, buttons, device_id, backlight, now,
                   finger, tpc, touches, fetches, press, polled>>

\* Lines 390-408 when a fetch is due; the remote answers with one of curs
\* and, if asked, one of recs.
DispFetch(curs, recs, max) ==
    /\ dpc = "top"
    /\ TouchSuspended
    /\ LoopRuns(state)
    /\ FetchDue(state, now)
    /\ fetches < max
    /\ fetches' = fetches + 1
    /\ \E cur \in curs, rec \in recs, saved \in SavedOutcomes :
          LET f == FetchState(cur, rec)
              s0 == [state EXCEPT !.latest_fetch = now]
          IN /\ state' = Merge(s0, f.result, saved)
             /\ device_id' = AdoptDevice(device_id, f.result)
             /\ fetch_log' = [cur |-> cur,
                              rec |-> IF f.recent_called THEN rec ELSE RecNone,
                              recent_called |-> f.recent_called,
                              result |-> f.result]
             /\ polled' = [at |-> now,
                           progress_ms |-> Merge(s0, f.result, saved).progress_ms]
    /\ dpc' = "estimate"
    /\ image_shown' = FALSE
    /\ redrew' = FALSE
    /\ backlit' = FALSE
    /\ UNCHANGED <<prev_state, buttons, backlight, now, finger, tpc, touches,
                   press>>

\* Lines 410-414: the progress estimate.  latest_fetch must be a time.
Estimate(s, t) ==
    IF s.is_playing /\ s.duration_ms > 0
    THEN [s EXCEPT !.progress_ms =
                Min(s.progress_ms + (t - s.latest_fetch) * 1000, s.duration_ms)]
    ELSE s

\* (time.time() - None) raises TypeError
EstimateRaises(s) ==
    s.is_playing /\ s.duration_ms > 0 /\ s.latest_fetch = NoTime

\* Lines 416-424: the dimmer
Dim(s, t) ==
    IF t - s.last_activity > INACTIVITY_TIMEOUT
    THEN [s EXCEPT !.is_dimmed = TRUE]
    ELSE [s EXCEPT !.is_dimmed = FALSE]

DimBacklight(s, t, bl) ==
    IF t - s.last_activity > INACTIVITY_TIMEOUT
    THEN IF ~s.is_dimmed THEN 30 ELSE bl
    ELSE IF s.is_dimmed THEN 100 ELSE bl

\* A variant that sets the backlight in every tick.
SetsBacklightAlways(s, t) == TRUE

\* Lines 418-424: whether display.set_backlight is called
SetsBacklight(s, t) ==
    IF t - s.last_activity > INACTIVITY_TIMEOUT
    THEN ~s.is_dimmed
    ELSE s.is_dimmed

\* Line 426: whether the album image is to be drawn
ImageDue(p, s) ==
    /\ (p = NoState \/ TrackId(p.track) # TrackId(s.track))
    /\ s.track # NoTrack

\* show_image(img): memoryview(None) raises TypeError, which
\* "except OSError" does not catch.
ShowImageRaises(img) == img = "None"

\* Lines 410-431 when the progress estimate raises.
DispEstimateCrash ==
    /\ dpc = "estimate"
    /\ TouchSuspended
    /\ EstimateRaises(state)
    /\ dpc' = "crashed"
    /\ UNCHANGED <<state, prev_state, buttons, device_id, backlight, now,
                   finger, tpc, touches, fetches, press, fetch_log, image_shown, redrew,
                   polled, backlit>>

\* Lines 410-431.  img is what get_album_cover returns: an image or None.
DispEstimate ==
    /\ dpc = "estimate"
    /\ TouchSuspended
    /\ ~EstimateRaises(state)
    /\ LET s1 == Estimate(state, now)
           s2 == Dim(s1, now)
       IN /\ state' = s2
          /\ backlight' = DimBacklight(s1, now, backlight)
          /\ backlit' = SetsBacklight(s1, now)
          /\ IF ImageDue(prev_state, s2)
             THEN \E img \in {"jpeg", "None"} :
                     IF ShowImageRaises(img)
                     THEN dpc' = "crashed" /\ image_shown' = FALSE
                     ELSE dpc' = "redraw" /\ image_shown' = TRUE
             ELSE dpc' = "redraw" /\ image_shown' = FALSE
    /\ UNCHANGED <<prev_state, buttons, device_id, now, finger, tpc, touches,
                   fetches, press, fetch_log, redrew, polled>>

\* Lines 433-443: the redraw check, then sleep 200 ms.
DispRedraw ==
    /\ dpc = "redraw"
    /\ TouchSuspended
    /\ IF StateNe(prev_state, state)
       THEN prev_state' = Copy(state, now) /\ redrew' = TRUE
       ELSE prev_state' = prev_state /\ redrew' = FALSE
    /\ dpc' = "top"
    /\ UNCHANGED <<state, buttons, device_id, backlight, now, finger, tpc,
                   touches, fetches, press, fetch_log, image_shown,
                   polled, backlit>>

Next ==
    \/ AdvanceBy(TimeSteps, MaxTime)
    \/ Touch
    \/ Release
    \/ TouchExit
    \/ TouchScan
    \/ TouchWait
    \/ DispExit
    \/ DispSkipFetch
    \/ DispFetch(LoopCur, LoopRec, MaxFetches)
    \/ DispEstimateCrash
    \/ DispEstimate
    \/ DispRedraw

Spec == Init /\ [][Next]_vars

\* The event loop runs every task that is ready, and the finger is lifted
\* in the end.
Fairness ==
    /\ WF_vars(Release)
    /\ WF_vars(TouchExit)
    /\ WF_vars(TouchScan)
    /\ WF_vars(TouchWait)
    /\ WF_vars(DispExit)
    /\ WF_vars(DispSkipFetch)
    /\ WF_vars(DispFetch(LoopCur, LoopRec, MaxFetches))
    /\ WF_vars(DispEstimateCrash)
    /\ WF_vars(DispEstimate)
    /\ WF_vars(DispRedraw)

FairSpec == Init /\ [][Next]_vars /\ Fairness

(***************************************************************************)
(* The application with nobody touching the screen: the display loop and   *)
(* the idle scans of the touch loop, with the clock observed at finer      *)
(* steps.                                                                  *)
(***************************************************************************)
WatchSteps == {4, 5, INTERVAL + 1, INACTIVITY_TIMEOUT + 1}
WatchCur == {CurRaise, PlayingB}

NextWatch ==
    \/ AdvanceBy(WatchSteps, MaxWatchTime)
    \/ TouchScan
    \/ DispSkipFetch
    \/ DispFetch(WatchCur, LoopRec, MaxWatchFetches)
    \/ DispEstimate
    \/ DispRedraw

SpecWatch == Init /\ [][NextWatch]_vars

(***************************************************************************)
(* The application left idle for the inactivity timeout and then touched:  *)
(* the clock is observed exactly at the timeout and just after it.         *)
(***************************************************************************)
DimSteps == {INACTIVITY_TIMEOUT, INACTIVITY_TIMEOUT + 1}
DimCur == {CurRaise, PlayingA}

NextDim ==
    \/ AdvanceBy(DimSteps, MaxDimTime)
    \/ Touch
    \/ Release
    \/ TouchExit
    \/ TouchScan
    \/ TouchWait
    \/ DispExit
    \/ DispSkipFetch
    \/ DispFetch(DimCur, LoopRec, MaxFetches)
    \/ DispEstimateCrash
    \/ DispEstimate
    \/ DispRedraw

SpecDim == Init /\ [][NextDim]_vars

(***************************************************************************)
(* The volume controls on their own: the overlay is shown, the local       *)
(* volume is any multiple of 5 in 0..100, and the polls report the volumes *)
(* 5 and 95.                                                               *)
(***************************************************************************)
Volumes == {5 * k : k \in 0..20}
VolumeCur == {CurResp(TrackA, TRUE, FALSE, "off", TRUE, 5, 0), PlayingB}

InitVolume ==
    /\ state \in {[NewState(StartTime) EXCEPT !.show_controls = TRUE,
                                              !.volume = v] : v \in Volumes}
    /\ prev_state = NoState
    /\ buttons = NewButtons
    /\ device_id = NoDevice
    /\ backlight = 100
    /\ now = StartTime
    /\ finger = <<>>
    /\ tpc = "top"
    /\ dpc = "top"
    /\ touches = 0
    /\ fetches = 0
    /\ press = NoPress
    /\ fetch_log = NoFetch
    /\ image_shown = FALSE
    /\ redrew = FALSE
    /\ backlit = FALSE
    /\ polled = NoPoll

NextVolume ==
    \/ Touch
    \/ Release
    \/ TouchExit
    \/ TouchScan
    \/ TouchWait
    \/ DispExit
    \/ DispSkipFetch
    \/ DispFetch(VolumeCur, LoopRec, MaxFetches)
    \/ DispEstimateCrash
    \/ DispEstimate
    \/ DispRedraw

SpecVolume == InitVolume /\ [][NextVolume]_vars

(***************************************************************************)
(* State.__eq__ on its own: the redraw check (prev_state != self.state)    *)
(* applied to a live state and to every snapshot that differs from it in   *)
(* any set of fields.                                                      *)
(***************************************************************************)
EqLive ==
    { NewState(StartTime),
      [NewState(StartTime) EXCEPT !.track = TrackA, !.is_playing = TRUE,
                                  !.progress_ms = 50000,
                                  !.duration_ms = 200000,
                                  !.latest_fetch = StartTime] }

ProgressDeltas == {0, 1, 4999, 5000, 0 - 4999, 0 - 5000}

EqSnapshots(a) ==
    { s \in [toggle_leds : BOOLEAN, is_playing : BOOLEAN, repeat : BOOLEAN,
             shuffle : BOOLEAN, show_controls : BOOLEAN, exit : BOOLEAN,
             is_liked : BOOLEAN, is_dimmed : BOOLEAN,
             track : {NoTrack, [id |-> "A", duration_ms |-> 0],
                      [id |-> "B", duration_ms |-> 0]},
             volume : {a.volume, a.volume + 10},
             progress_ms : {a.progress_ms + d : d \in ProgressDeltas},
             duration_ms : {a.duration_ms, 180000},
             last_activity : {a.last_activity, a.last_activity + 1},
             latest_fetch : {NoTime}] :
        s.progress_ms >= 0 }

InitEq ==
    /\ state \in EqLive
    /\ prev_state \in EqSnapshots(state)
    /\ buttons = NewButtons
    /\ device_id = NoDevice
    /\ backlight = 100
    /\ now = StartTime
    /\ finger = <<>>
    /\ tpc = "top"
    /\ dpc = "redraw"
    /\ touches = 0
    /\ fetches = 0
    /\ press = NoPress
    /\ fetch_log = NoFetch
    /\ image_shown = FALSE
    /\ redrew = FALSE
    /\ backlit = FALSE
    /\ polled = NoPoll

SpecEq == InitEq /\ [][DispRedraw]_vars

(***************************************************************************)
(* fetch_state on its own: the first poll of the display loop, over every  *)
(* shape of the two responses.                                             *)
(***************************************************************************)
AllCur ==
    {CurRaise, CurNone} \cup
    { CurResp(item, playing, shuf, rep, dev, vol, prog) :
        item \in Tracks \cup {NoTrack}, playing \in BOOLEAN,
        shuf \in BOOLEAN, rep \in {"off", "track", "context"},
        dev \in BOOLEAN, vol \in {NoVolume, 0, 95},
        prog \in {NoProgress, 0, 50000} }

AllRec ==
    {RecRaise, RecNone} \cup
    { RecResp(items) :
        items \in {<<>>, <<TrackA>>, <<TrackB>>, <<NoTrack>>, <<Broken>>,
                   <<TrackB, TrackA>>} }

SpecFetch == Init /\ [][DispFetch(AllCur, AllRec, 1)]_vars

(***************************************************************************)
(* Claims                                                                  *)
(***************************************************************************)
\* A step of the display loop from the redraw check to the 200 ms sleep.
RedrawStep == dpc = "redraw" /\ dpc' = "top"
\* A step of the display loop that calls fetch_state.
FetchStep == dpc = "top" /\ dpc' = "estimate" /\ fetch_log' # NoFetch

\* Snapshot p and state s agree on every compared flag, on the volume and on
\* the track id, and their progress differs by less than 5000 ms.
C1_Same(p, s) ==
    /\ p # NoState
    /\ p.toggle_leds = s.toggle_leds
    /\ p.is_playing = s.is_playing
    /\ p.repeat = s.repeat
    /\ p.shuffle = s.shuffle
    /\ p.show_controls = s.show_controls
    /\ p.exit = s.exit
    /\ p.is_liked = s.is_liked
    /\ p.is_dimmed = s.is_dimmed
    /\ p.volume = s.volume
    /\ p.track.id = s.track.id
    /\ p.progress_ms - s.progress_ms < 5000
    /\ s.progress_ms - p.progress_ms < 5000

\* C1: in every display-loop iteration the controls are redrawn and a new
\* snapshot is committed exactly when there is no snapshot yet or the
\* snapshot differs from the live state (a flag, the volume, the track id, or
\* progress by 5000 ms or more); without a redraw the snapshot is kept; right
\* after the redraw check the snapshot equals the live state.
C1_RedrawGate ==
    [][RedrawStep =>
        /\ redrew' = (prev_state = NoState \/ ~C1_Same(prev_state, state))
        /\ (~redrew' => prev_state' = prev_state)
        /\ C1_Same(prev_state', state')]_vars

\* An iteration ended without a redraw although the estimated progress had
\* moved away from the snapshot's.
C1_Witness ==
    /\ dpc = "top"
    /\ prev_state # NoState
    /\ ~redrew
    /\ prev_state.progress_ms # state.progress_ms

\* The equality the specification states: toggle_leds is not compared.
C2_Claimed(a, b) ==
    /\ a.show_controls = b.show_controls
    /\ a.is_playing = b.is_playing
    /\ a.shuffle = b.shuffle
    /\ a.repeat = b.repeat
    /\ a.exit = b.exit
    /\ a.is_liked = b.is_liked
    /\ a.is_dimmed = b.is_dimmed
    /\ a.volume = b.volume
    /\ a.track.id = b.track.id
    /\ a.progress_ms - b.progress_ms < 5000
    /\ b.progress_ms - a.progress_ms < 5000

\* C2 as stated: State.__eq__(A, B) holds exactly when A and B agree on
\* showControls, isPlaying, shuffle, repeat, exitRequested, isLiked, isDimmed,
\* volume and track id and their progress differs by less than 5000; no other
\* field, ledsEnabled included, influences the result.
C2_Original ==
    [][RedrawStep => (redrew' = ~C2_Claimed(prev_state, state))]_vars

\* C2 as amended: State.__eq__(A, B) holds exactly when A and B agree on
\* ledsEnabled as well as on the fields above; durationMs, lastActivityAt and
\* lastFetchAt do not influence it; it is reflexive and symmetric; a progress
\* delta of 4999 is equal and one of 5000 is not.
C2_Equality ==
    [][RedrawStep =>
        /\ redrew' = ~(C2_Claimed(prev_state, state)
                       /\ prev_state.toggle_leds = state.toggle_leds)
        /\ StateEq(prev_state, state) = StateEq(state, prev_state)
        /\ StateEq(state, state)
        /\ StateEq(prev_state, prev_state)]_vars

\* Two snapshots that differ in duration and activity time, 4999 ms apart,
\* were found equal.
C2_Witness ==
    /\ dpc = "top"
    /\ ~redrew
    /\ Abs(prev_state.progress_ms - state.progress_ms) = 4999
    /\ prev_state.duration_ms # state.duration_ms
    /\ prev_state.last_activity # state.last_activity

\* The current-playback step fails: the call raises, returns nothing or no
\* item, or the extraction raises (an item but no device).
C3_FirstStepFails(cur) ==
    \/ cur.kind \in {"raise", "none"}
    \/ cur.item = NoTrack
    \/ ~cur.has_device

\* The recently-played response yields a track.
C3_RecentTrack(rec) ==
    /\ rec.kind = "resp"
    /\ rec.items # <<>>
    /\ rec.items[1] \in Tracks

\* C3: whenever the current-playback step fails in any way, recently-played
\* is called, and if it yields a track the result is that track with its
\* duration and every transport field at its default.
C3_FallbackOnAnyFailure ==
    (fetch_log # NoFetch /\ C3_FirstStepFails(fetch_log.cur)) =>
        /\ fetch_log.recent_called
        /\ C3_RecentTrack(fetch_log.rec) =>
              fetch_log.result =
                 [device_id |-> NoDevice, track |-> fetch_log.rec.items[1],
                  is_playing |-> FALSE, shuffle |-> FALSE, repeat |-> FALSE,
                  volume |-> 50, progress_ms |-> 0,
                  duration_ms |-> fetch_log.rec.items[1].duration_ms]

\* Neither call yields a track.
C4_NoTrackAnywhere(log) ==
    /\ \/ log.cur.kind \in {"raise", "none"}
       \/ log.cur.item = NoTrack
    /\ ~C3_RecentTrack(log.rec)

\* C4: if neither call yields a track fetch_state returns no track, and the
\* display loop then changes nothing of the state but latest_fetch, and not
\* the session's device id.
C4_NoTrackKeepsState ==
    [][FetchStep =>
        /\ C4_NoTrackAnywhere(fetch_log') => fetch_log'.result = NoResult
        /\ fetch_log'.result = NoResult =>
              /\ state' = [state EXCEPT !.latest_fetch = now]
              /\ device_id' = device_id]_vars

\* A poll found no track while a track was on display.
C4_Witness ==
    /\ fetch_log # NoFetch
    /\ fetch_log.result = NoResult
    /\ state.track # NoTrack
    /\ state.latest_fetch = now

\* A step of the touch loop that found the panel touched: the scan of the
\* buttons, with press' what it dispatched.
ScanStep == tpc = "top" /\ tpc' # "top" /\ tpc' # "done"
\* The step of the display loop that follows the yield after the fetch step.
ImageStep == dpc = "estimate" /\ dpc' # "estimate"

\* The poll of this iteration returned a track whose id differs from the
\* track id of the last rendered snapshot.
C5_TrackChanged ==
    /\ fetch_log # NoFetch
    /\ fetch_log.result # NoResult
    /\ prev_state # NoState
    /\ prev_state.track.id # fetch_log.result.track.id

\* C5: when a poll lands with a track whose id differs from the snapshot's,
\* then in that iteration the polled values overwrite the state, the album
\* image is redrawn, the full redraw occurs and the committed snapshot carries
\* the new track id; with the track id unchanged no image is redrawn.
C5_TrackChangeRedraws ==
    [][/\ (FetchStep /\ fetch_log'.result # NoResult) =>
             /\ state'.track = fetch_log'.result.track
             /\ state'.is_playing = fetch_log'.result.is_playing
             /\ state'.shuffle = fetch_log'.result.shuffle
             /\ state'.repeat = fetch_log'.result.repeat
             /\ state'.volume = fetch_log'.result.volume
             /\ state'.progress_ms = fetch_log'.result.progress_ms
             /\ state'.duration_ms = fetch_log'.result.duration_ms
       /\ (ImageStep /\ C5_TrackChanged) =>
             (dpc' = "redraw" /\ image_shown')
       /\ (RedrawStep /\ C5_TrackChanged) =>
             (redrew' /\ prev_state'.track.id = fetch_log.result.track.id)
       /\ (ImageStep /\ prev_state # NoState
                     /\ prev_state.track.id = state.track.id) =>
             ~image_shown']_vars

\* C6: the display loop stops only when exitRequested is true; neither a
\* failed image fetch nor a failed remote call ends it.
C6_OnlyExitStopsDisplay ==
    dpc \in {"done", "crashed"} => state.exit

\* C7: an exception of an onPress handler is caught at the dispatch site:
\* the input loop goes on to wait for release, and it stops only when
\* exitRequested is true.
C7_HandlerFailureCaught ==
    [][/\ tpc' \in {"top", "waiting", "done"}
       /\ (tpc # "done" /\ tpc' = "done") => state.exit
       /\ (ScanStep /\ press'.raised) =>
             /\ tpc' = "waiting"
             /\ ~state'.exit]_vars

\* A handler raised, the finger has been lifted and the input loop is about
\* to go on.
C7_Witness ==
    /\ press.raised
    /\ tpc = "waiting"
    /\ finger = <<>>

\* The controls with a remote command.
C8_Remote ==
    {i \in ButtonIds : ButtonNames[i] \in
        {"Play", "Toggle Shuffle", "Toggle Repeat", "Volume Up",
         "Volume Down", "Like"}}

\* The mutation a press of button i makes: from state s to state s2.
C8_Mutated(i, s, s2) ==
    CASE ButtonNames[i] = "Play" -> s2.is_playing = ~s.is_playing
      [] ButtonNames[i] = "Toggle Shuffle" -> s2.shuffle = ~s.shuffle
      [] ButtonNames[i] = "Toggle Repeat" -> s2.repeat = ~s.repeat
      [] ButtonNames[i] = "Volume Up" ->
            s2.volume = IF s.volume + 10 > 100 THEN 100 ELSE s.volume + 10
      [] ButtonNames[i] = "Volume Down" ->
            s2.volume = IF s.volume - 10 < 0 THEN 0 ELSE s.volume - 10
      [] ButtonNames[i] = "Like" ->
            (s.track # NoTrack => s2.is_liked = ~s.is_liked)
      [] OTHER -> TRUE

C9_ExitIsTerminal ==
    /\ [][state.exit => state'.exit]_vars
    /\ [][(state.exit /\ tpc = "top") =>
             /\ tpc' \in {"top", "done"}
             /\ buttons' = buttons
             /\ press' = press]_vars
    /\ [][(state.exit /\ dpc = "top") =>
             /\ dpc' \in {"top", "done"}
             /\ fetches' = fetches
             /\ fetch_log' = fetch_log]_vars
    /\ (state.exit ~> (tpc = "done" /\ dpc \in {"done", "crashed"}))

\* Exit was pressed and both loops have left their while loop.
C9_Witness ==
    /\ state.exit
    /\ tpc = "done"
    /\ dpc = "done"

\* The visibility rule: whether button i is enabled in state s.
C10_Enabled(i, s) ==
    ButtonNames[i] = "Toggle Controls" \/ s.show_controls

\* The enabled buttons whose bounds contain the touch point.
C10_Matches(s, f) ==
    {i \in ButtonIds : C10_Enabled(i, s) /\ Contains(Bounds[i], f[1])}

\* C10: in a tick at most one control is dispatched, the earliest declared
\* among the enabled controls whose bounds contain the touch point; the
\* state changes as that control's handler alone changes it.
C10_FirstMatchWins ==
    [][(ScanStep /\ finger # <<>>) =>
          LET m == C10_Matches(state, finger) IN
          /\ m = {} => press'.hit = 0 /\ state' = state
          /\ m # {} =>
                /\ press'.hit \in m
                /\ \A j \in m : press'.hit <= j
                /\ \E ok \in BOOLEAN :
                      state' = OnPress(press'.hit, state, ok, now).state]_vars

\* With the overlay shown a touch inside a specific control fired that
\* control, although the full-screen toggle contains the point as well.
C10_Witness ==
    /\ tpc = "waiting"
    /\ finger # <<>>
    /\ press.hit # 0
    /\ press.hit < NButtons
    /\ state.show_controls
    /\ Cardinality(C10_Matches(state, finger)) = 2

\* C11: one physical touch dispatches at most one action: a dispatch leaves
\* the input loop waiting for release, and while the touch is held the loop
\* stays there, scanning and dispatching nothing, whatever the first action
\* changed.
C11_OneDispatchPerTouch ==
    [][/\ (ScanStep /\ press'.hit # 0) => tpc' = "waiting"
       /\ (tpc = "waiting" /\ finger # <<>>) =>
             /\ tpc' = "waiting"
             /\ press' = press
             /\ state' = state
             /\ buttons' = buttons
             /\ touches' = touches]_vars

\* The overlay was toggled on under a finger that is still held some time
\* later.
C11_Witness ==
    /\ tpc = "waiting"
    /\ finger # <<>>
    /\ press.hit = NButtons
    /\ state.show_controls
    /\ now > state.last_activity

\* A step of the display loop.
C12_DisplayStep ==
    \/ DispExit
    \/ DispSkipFetch
    \/ DispFetch(LoopCur, LoopRec, MaxFetches)
    \/ DispEstimateCrash
    \/ DispEstimate
    \/ DispRedraw

\* C12: while the input loop waits for a held touch to be released it
\* suspends between polls, so the display loop, as long as it has not ended,
\* can take its next step.
C12_DisplayRunsWhileHeld ==
    (/\ tpc = "waiting"
     /\ finger # <<>>
     /\ dpc \in {"top", "estimate", "redraw"}
     /\ fetches < MaxFetches) => ENABLED C12_DisplayStep

\* C13: in every input-loop tick, a tick that dispatches a press included,
\* the enabled flag and the icon of every control are recomputed from the
\* state the tick started with.
C13_AllRulesEvaluated ==
    [][(tpc = "top" /\ (tpc' = "waiting" \/ buttons' # buttons)) =>
          \A i \in ButtonIds : buttons'[i] = Update(i, state, buttons[i])]_vars

\* C14 as stated: any two consecutive calls of fetch_state are more than 10
\* time units apart, under every sequence of presses and polls.
C14_Original ==
    [][(FetchStep /\ polled # NoPoll) => now - polled.at > INTERVAL]_vars

\* C14 as amended: fetch_state is called by the display loop only; two
\* consecutive calls are more than 10 time units apart unless a Next or
\* Previous press has cleared latest_fetch since the earlier call; a call
\* that found no track is not repeated before the interval has passed.
C14_FetchInterval ==
    [][/\ (polled' # polled) => FetchStep
       /\ FetchStep => (polled'.at = now /\ state'.latest_fetch = now)
       /\ (FetchStep /\ polled # NoPoll /\ state.latest_fetch # NoTime) =>
             now - polled.at > INTERVAL
       /\ (state.latest_fetch # NoTime /\ state'.latest_fetch = NoTime) =>
             /\ ScanStep
             /\ ~press'.raised
             /\ press'.call.op \in {"next", "previous"}]_vars

\* A poll found no track, and the iteration after it did not poll again.
C14_Witness ==
    /\ dpc = "estimate"
    /\ fetch_log = NoFetch
    /\ polled # NoPoll
    /\ state.track = NoTrack
    /\ state.latest_fetch = polled.at
    /\ now - polled.at <= INTERVAL

\* The controls that skip to another track.
C15_Skip == {i \in ButtonIds : ButtonNames[i] \in {"Next", "Previous"}}

C16_LinearEstimate ==
    [][(ImageStep /\ polled # NoPoll /\ state.is_playing
                  /\ state.duration_ms > 0) =>
          state'.progress_ms =
             Min(polled.progress_ms + (now - polled.at) * 1000,
                 state.duration_ms)]_vars

\* C17: in every reachable state 0 <= progress_ms <= duration_ms, whatever
\* progress and duration the remote reports.
C17_ProgressInRange ==
    /\ 0 <= state.progress_ms
    /\ state.progress_ms <= state.duration_ms

\* C18: after the dimmer step of every display-loop tick is_dimmed is true
\* exactly when now - last_activity > 30; the backlight is set in a tick
\* exactly when is_dimmed changed in it, to 30% on dimming and to 100% on
\* brightening; the last backlight value set always matches is_dimmed.
C18_Dimmer ==
    /\ [][(ImageStep /\ ~EstimateRaises(state)) =>
             /\ state'.is_dimmed =
                   (now - state.last_activity > INACTIVITY_TIMEOUT)
             /\ backlit' = (state'.is_dimmed # state.is_dimmed)
             /\ backlight' = IF backlit'
                             THEN (IF state'.is_dimmed THEN 30 ELSE 100)
                             ELSE backlight]_vars
    /\ [](backlight = IF state.is_dimmed THEN 30 ELSE 100)

\* A dimmed display has just been brought back to full brightness.
C18_Witness ==
    /\ dpc = "redraw"
    /\ backlit
    /\ ~state.is_dimmed
    /\ backlight = 100
    /\ prev_state # NoState
    /\ prev_state.is_dimmed

\* C19: whenever the input loop dispatches a control, whichever it is and
\* also when its remote command fails or when Like is pressed with no track,
\* last_activity is the time of the dispatch afterwards.
C19_EveryPressIsActivity ==
    [][(ScanStep /\ press'.hit # 0) => state'.last_activity = now]_vars

\* The volume a press of button i asks for when the local volume is v.
C20_Stepped(i, v) ==
    IF ButtonNames[i] = "Volume Up"
    THEN (IF v + 10 > 100 THEN 100 ELSE v + 10)
    ELSE (IF v - 10 < 0 THEN 0 ELSE v - 10)

C21_EstimatorReadsTime ==
    [][(ImageStep /\ state.is_playing /\ state.duration_ms > 0) =>
          /\ state.latest_fetch # NoTime
          /\ state'.progress_ms =
                Min(state.progress_ms + (now - state.latest_fetch) * 1000,
                    state.duration_ms)]_vars

\* C22: whenever the display loop redraws the controls and commits a
\* snapshot, what it draws for every control is what the control's update
\* function yields for the state being rendered: right after the overlay
\* toggle set show_controls, the overlay controls are drawn.
C22_RedrawUsesFreshControls ==
    [][(RedrawStep /\ redrew') =>
          \A i \in ButtonIds :
             Draw(buttons[i]) = Draw(Update(i, state, buttons[i]))]_vars

====
